---------------------------- MODULE Spec2Model ----------------------------
(***************************************************************************)
(* Cook's-distance outlier detector (pyod/models/cd.py): the detector's    *)
(* state, its fit and decision_function operations and the numerical      *)
(* pipeline behind them (whitening, least squares, leverage, Cook's        *)
(* distance, threshold and labels).                                        *)
(*                                                                         *)
(* Real numbers are modelled exactly.  A value is either a finite number   *)
(* (n/d)*sqrt(r) with r a squarefree positive integer (r = 1: a rational), *)
(* or one of the IEEE specials +inf, -inf, nan that numpy's division and   *)
(* square root produce.  Rounding is not modelled.                         *)
(***************************************************************************)
EXTENDS Integers, Sequences, FiniteSets, TLC

(***************************************************************************)
(* Numbers                                                                 *)
(***************************************************************************)
Abs(i) == IF i < 0 THEN -i ELSE i

Sgn(i) == IF i < 0 THEN -1 ELSE IF i = 0 THEN 0 ELSE 1

RECURSIVE GCD(_, _)
GCD(a, b) == IF b = 0 THEN a ELSE GCD(b, a % b)

\* m = s*s*t with t squarefree, by trial division from f upwards: <<s, t>>.
RECURSIVE SqSplit(_, _, _)
SqSplit(m, f, s) ==
    IF f * f > m THEN <<s, m>>
    ELSE IF m % (f * f) = 0 THEN SqSplit(m \div (f * f), f, s * f)
    ELSE SqSplit(m, f + 1, s)

NaN == [t |-> "nan", n |-> 0, d |-> 1, r |-> 1]

Inf(s) == [t |-> "inf", n |-> s, d |-> 1, r |-> 1]

\* A value outside the representation (a sum of unlike surds).
Unrep == [t |-> "unrep", n |-> 0, d |-> 1, r |-> 1]

\* (n/d)*sqrt(r), r squarefree, d # 0, brought to lowest terms.
Fin(n, d, r) ==
    IF n = 0 THEN [t |-> "fin", n |-> 0, d |-> 1, r |-> 1]
    ELSE LET g == GCD(Abs(n), Abs(d))
             s == IF d < 0 THEN -1 ELSE 1
         IN  [t |-> "fin", n |-> s * (n \div g), d |-> s * (d \div g), r |-> r]

Rat(n, d) == Fin(n, d, 1)

R(i) == Rat(i, 1)

Zero == R(0)

One == R(1)

IsFin(a) == a.t = "fin"

IsNaN(a) == a.t = "nan"

IsZero(a) == a.t = "fin" /\ a.n = 0

\* The sign of a value (0 for zero; nan has none and is asked for nowhere).
Sign(a) == Sgn(a.n)

Neg(a) == IF a.t \in {"fin", "inf"} THEN [a EXCEPT !.n = -a.n] ELSE a

\* (n/d)*sqrt(m) for any integer m > 0.
Surd(n, d, m) ==
    LET sp == SqSplit(m, 2, 1) IN Fin(n * sp[1], d, sp[2])

Mul(a, b) ==
    IF a.t = "unrep" \/ b.t = "unrep" THEN Unrep
    ELSE IF a.t = "nan" \/ b.t = "nan" THEN NaN
    ELSE IF a.t = "inf" \/ b.t = "inf"
         THEN IF Sign(a) = 0 \/ Sign(b) = 0 THEN NaN ELSE Inf(Sign(a) * Sign(b))
    ELSE IF a.n = 0 \/ b.n = 0 THEN Zero
    ELSE LET g1 == GCD(Abs(a.n), b.d)
             g2 == GCD(Abs(b.n), a.d)
             n  == (a.n \div g1) * (b.n \div g2)
             d  == (a.d \div g2) * (b.d \div g1)
             g  == GCD(a.r, b.r)
             g3 == GCD(g, d)
         IN  Fin(n * (g \div g3), d \div g3, (a.r \div g) * (b.r \div g))

\* 1/a for a finite and not zero: d/(n*sqrt(r)) = (d/(n*r))*sqrt(r).
Recip(a) == Fin(a.d, a.n * a.r, a.r)

Div(a, b) ==
    IF a.t = "unrep" \/ b.t = "unrep" THEN Unrep
    ELSE IF a.t = "nan" \/ b.t = "nan" THEN NaN
    ELSE IF b.t = "inf" THEN IF a.t = "inf" THEN NaN ELSE Zero
    ELSE IF b.n = 0
         THEN IF Sign(a) = 0 THEN NaN ELSE Inf(Sign(a))
    ELSE IF a.t = "inf" THEN Inf(Sign(a) * Sign(b))
    ELSE Mul(a, Recip(b))

Add(a, b) ==
    IF a.t = "unrep" \/ b.t = "unrep" THEN Unrep
    ELSE IF a.t = "nan" \/ b.t = "nan" THEN NaN
    ELSE IF a.t = "inf"
         THEN IF b.t = "inf" /\ b.n # a.n THEN NaN ELSE a
    ELSE IF b.t = "inf" THEN b
    ELSE IF a.n = 0 THEN b
    ELSE IF b.n = 0 THEN a
    ELSE IF a.r = b.r
         THEN LET g == GCD(a.d, b.d)
              IN  Fin(a.n * (b.d \div g) + b.n * (a.d \div g),
                      (a.d \div g) * b.d, a.r)
    ELSE Unrep

Sub(a, b) == Add(a, Neg(b))

\* numpy.sqrt: nan for a negative argument.
Sqrt(a) ==
    IF a.t \in {"nan", "unrep"} THEN a
    ELSE IF a.t = "inf" THEN IF a.n > 0 THEN a ELSE NaN
    ELSE IF a.n < 0 THEN NaN
    ELSE IF a.n = 0 THEN Zero
    ELSE IF a.r # 1 THEN Unrep
    ELSE Surd(1, a.d, a.n * a.d)

\* a > b as IEEE compares: false when either side is nan.
Gt(a, b) ==
    IF a.t \in {"nan", "unrep"} \/ b.t \in {"nan", "unrep"} THEN FALSE
    ELSE LET c == Sub(a, b)
         IN  c.t \in {"fin", "inf"} /\ c.n > 0

Ge(a, b) ==
    IF a.t \in {"nan", "unrep"} \/ b.t \in {"nan", "unrep"} THEN FALSE
    ELSE a = b \/ Gt(a, b)


(***************************************************************************)
(* Arrays as numpy carries them: the shape and the entries in row-major    *)
(* order, [shape |-> <<n, p>>, a |-> entries].                             *)
(***************************************************************************)
\* A sequence given as a function on 1..n, with its entries computed once.
Eager(f) == f \o <<>>

\* The rows 1..i of a matrix, one after the other.
RECURSIVE Flatten(_, _)
Flatten(rows, i) == IF i = 0 THEN <<>> ELSE Flatten(rows, i - 1) \o rows[i]

\* The n x p array of the given rows.
Array2(rows, n, p) == [shape |-> <<n, p>>, a |-> Flatten(rows, n)]

Mat(rows) == Array2(rows, Len(rows), Len(rows[1]))

\* Row i of a 2-D array.
A_row(A, i) == SubSeq(A.a, (i - 1) * A.shape[2] + 1, i * A.shape[2])

\* The rows of a 2-D array.
Rows(A) == Eager([i \in 1..A.shape[1] |-> A_row(A, i)])

Vec(xs) == [shape |-> <<Len(xs)>>, a |-> xs]

NDim(A) == Len(A.shape)

RECURSIVE SumN(_, _)
SumN(s, i) == IF i = 0 THEN Zero ELSE Add(SumN(s, i - 1), s[i])

Sum(s) == SumN(s, Len(s))

Dot(u, v) == Sum(Eager([i \in 1..Len(u) |-> Mul(u[i], v[i])]))

Mean(s) == Div(Sum(s), R(Len(s)))

Col(M, n, j) == Eager([i \in 1..n |-> M[i][j]])

Transpose(M, n, p) == Eager([j \in 1..p |-> Col(M, n, j)])

\* (n x k) times (k x p), on rows.
MatMul(A, B, n, k, p) ==
    LET Bt == Transpose(B, k, p)
    IN  Eager([i \in 1..n |-> Eager([j \in 1..p |-> Dot(A[i], Bt[j])])])

MatVec(A, v, n) == Eager([i \in 1..n |-> Dot(A[i], v)])

AllFinite(M, n, p) == \A i \in 1..n : \A j \in 1..p : IsFin(M[i][j])

MinOf(S) == CHOOSE i \in S : \A j \in S : i <= j

\* Gauss-Jordan elimination of the n x p rows M from column c and pivot row k
\* on: the reduced row echelon form and the pivot columns.
RECURSIVE Rref(_, _, _, _, _, _)
Rref(M, n, p, c, k, piv) ==
    IF c > p \/ k > n THEN [m |-> M, piv |-> piv]
    ELSE LET cand == {i \in k..n : ~IsZero(M[i][c])}
         IN  IF cand = {} THEN Rref(M, n, p, c + 1, k, piv)
             ELSE LET i    == MinOf(cand)
                      rowk == Eager([j \in 1..p |-> Div(M[i][j], M[i][c])])
                      sw   == Eager([q \in 1..n |->
                                 IF q = k THEN rowk
                                 ELSE IF q = i THEN M[k] ELSE M[q]])
                      el   == Eager([q \in 1..n |->
                                 IF q = k THEN rowk
                                 ELSE Eager([j \in 1..p |->
                                        Sub(sw[q][j], Mul(sw[q][c], rowk[j]))])])
                  IN  Rref(el, n, p, c + 1, k + 1, Append(piv, c))

\* The inverse of an invertible r x r matrix: the right half of rref([B | I]).
Inverse(B, r) ==
    LET aug == Eager([i \in 1..r |-> Eager([j \in 1..(2 * r) |->
                   IF j <= r THEN B[i][j]
                   ELSE IF j - r = i THEN One ELSE Zero])])
        red == Rref(aug, r, 2 * r, 1, 1, <<>>).m
    IN  Eager([i \in 1..r |-> Eager([j \in 1..r |-> red[i][r + j]])])

\* numpy.linalg.matrix_rank of the n x p rows M.
matrix_rank(M, n, p) == Len(Rref(M, n, p, 1, 1, <<>>).piv)

\* F' (F F')^-1 for r x p rows F of rank r, Ft its transpose.
RightInverse(F, Ft, r, p) ==
    MatMul(Ft, Inverse(MatMul(F, Ft, r, p, r), r), p, r, r)

\* (C' C)^-1 C' for n x r rows C of rank r, Ct its transpose.
LeftInverse(C, Ct, n, r) ==
    MatMul(Inverse(MatMul(Ct, C, r, n, r), r), Ct, r, r, n)

\* The columns piv of the n rows M.
PivotColumns(M, n, piv) ==
    Eager([i \in 1..n |-> Eager([q \in 1..Len(piv) |-> M[i][piv[q]]])])

\* The Moore-Penrose inverse of the n x p rows M from its reduced row echelon
\* form rr of rank r: with the rank factorisation M = C F (C the pivot
\* columns of M, F the nonzero rows of rr.m), F' (F F')^-1 (C' C)^-1 C'.
pinv_factored(M, n, p, rr, r) ==
    IF r = 0 THEN Eager([j \in 1..p |-> Eager([i \in 1..n |-> Zero])])
    ELSE MatMul(RightInverse(SubSeq(rr.m, 1, r),
                             Transpose(SubSeq(rr.m, 1, r), r, p), r, p),
                LeftInverse(PivotColumns(M, n, rr.piv),
                            Transpose(PivotColumns(M, n, rr.piv), n, r), n, r),
                p, r, n)

pinv_reduced(M, n, p, rr) == pinv_factored(M, n, p, rr, Len(rr.piv))

\* numpy.linalg.pinv of the n x p rows M (p >= 1, n >= 1), p x n.
pinv(M, n, p) == pinv_reduced(M, n, p, Rref(M, n, p, 1, 1, <<>>))

(***************************************************************************)
(* numpy / scikit-learn operations the detector calls                      *)
(***************************************************************************)
EmptyVec == [shape |-> <<0>>, a |-> <<>>]

Scalar(x) == [shape |-> <<>>, a |-> <<x>>]

NRows(A) == A.shape[1]

NCols(A) == A.shape[2]

\* sklearn.utils.check_array: whether it raises ValueError on A (entries
\* are finite in every input): not 2-D when ensure_2d, or no sample, or no
\* feature.
check_array_raises(A, ensure_2d) ==
    IF ensure_2d /\ NDim(A) # 2 THEN TRUE
    ELSE IF NDim(A) = 0 THEN TRUE
    ELSE IF A.shape[1] < 1 THEN TRUE
    ELSE IF NDim(A) = 2 THEN A.shape[2] < 1
    ELSE FALSE

\* ndarray.reshape(-1, 1): one column holding the entries in row-major order.
reshape_column(A) == [shape |-> <<Len(A.a), 1>>, a |-> A.a]

\* numpy.squeeze: the axes of length 1 are dropped.
squeeze(A) ==
    IF NDim(A) = 1
    THEN IF A.shape[1] = 1 THEN Scalar(A.a[1]) ELSE A
    ELSE IF NDim(A) = 2
    THEN IF A.shape[1] = 1 /\ A.shape[2] = 1 THEN Scalar(A.a[1])
         ELSE IF A.shape[2] = 1 THEN [shape |-> <<A.shape[1]>>, a |-> A.a]
         ELSE IF A.shape[1] = 1 THEN [shape |-> <<A.shape[2]>>, a |-> A.a]
         ELSE A
    ELSE A

\* ---- sklearn.linear_model.LinearRegression --------------------------------
NoModel == [st |-> "absent", coef_ |-> <<>>, intercept_ |-> Zero]

\* LinearRegression(): an estimator that is not fitted.
LinearRegression == [st |-> "unfitted", coef_ |-> <<>>, intercept_ |-> Zero]

\* What LinearRegression.fit(X, y) raises in validating its input ("none":
\* nothing): X must be finite, y (a vector in every input here) no 0-d array
\* and as long as X has rows.
LinearRegression_fit_raises(X, y) ==
    IF check_array_raises(X, TRUE) THEN "ValueError"
    ELSE IF ~AllFinite(Rows(X), NRows(X), NCols(X)) THEN "ValueError"
    ELSE IF NDim(y) = 0 THEN "TypeError"
    ELSE IF y.shape[1] # NRows(X) THEN "ValueError"
    ELSE "none"

\* The column means of the n x p rows.
column_means(rows, n, p) == Eager([j \in 1..p |-> Mean(Col(rows, n, j))])

\* The rows less the column means xbar.
centre_rows(rows, n, p, xbar) ==
    Eager([i \in 1..n |-> Eager([j \in 1..p |-> Sub(rows[i][j], xbar[j])])])

\* The vector less its mean ybar.
centre_vector(v, ybar) == Eager([i \in 1..Len(v) |-> Sub(v[i], ybar)])

\* The fitted estimator: the coefficients and the intercept they leave.
fitted_model(xbar, ybar, coef) ==
    [st |-> "fitted", coef_ |-> coef,
     intercept_ |-> Sub(ybar, Dot(xbar, coef))]

\* Least squares on the centred data, the minimum-norm solution when the
\* rows are rank deficient.
least_squares(rows, v, n, p, xbar, ybar) ==
    fitted_model(xbar, ybar,
                 MatVec(pinv(centre_rows(rows, n, p, xbar), n, p),
                        centre_vector(v, ybar), p))

\* LinearRegression.fit(X, y) with the default fit_intercept.
LinearRegression_fit(X, y) ==
    least_squares(Rows(X), y.a, NRows(X), NCols(X),
                  column_means(Rows(X), NRows(X), NCols(X)), Mean(y.a))

\* LinearRegression.predict(X) raises: not fitted, or a feature-count mismatch.
predict_raises(model, X) ==
    IF model.st # "fitted" THEN "NotFittedError"
    ELSE IF NCols(X) # Len(model.coef_) THEN "ValueError"
    ELSE "none"

predict(model, X) ==
    Eager([i \in 1..NRows(X) |->
             Add(Dot(A_row(X, i), model.coef_), model.intercept_)])

\* ---- sklearn.decomposition.PCA(whiten=True), single-feature data -----------
NoPCA == [st |-> "absent", mean_ |-> Zero, components_ |-> Zero,
          explained_variance_ |-> Zero]

\* PCA(whiten=True): an estimator that is not fitted.
PCA == [st |-> "unfitted", mean_ |-> Zero, components_ |-> Zero,
        explained_variance_ |-> Zero]

PCA_fit_raises(X) == IF check_array_raises(X, TRUE) THEN "ValueError" ELSE "none"

\* The index of the first entry of largest absolute value.
ArgMaxAbs(v) ==
    MinOf({i \in 1..Len(v) :
             \A j \in 1..Len(v) : Ge(Mul(v[i], v[i]), Mul(v[j], v[j]))})

\* PCA.fit(X) for an n x 1 matrix: the mean, the single component (+1 or -1,
\* by svd_flip the sign that makes the largest-magnitude projection of the
\* training data positive) and the variance S^2/(n - 1).
PCA_fit(X) ==
    LET n   == NRows(X)
        x   == X.a
        m   == Mean(x)
        c   == Eager([i \in 1..n |-> Sub(x[i], m)])
        top == c[ArgMaxAbs(c)]
    IN  [st |-> "fitted", mean_ |-> m,
         components_ |-> IF Sign(top) < 0 THEN R(-1) ELSE One,
         explained_variance_ |-> Div(Dot(c, c), R(n - 1))]

PCA_transform_raises(pca, X) ==
    IF pca.st # "fitted" THEN "NotFittedError"
    ELSE IF check_array_raises(X, TRUE) \/ NCols(X) # 1 THEN "ValueError"
    ELSE "none"

\* PCA.transform(X): centre, project, divide by sqrt(explained_variance_).
PCA_transform(pca, X) ==
    LET scale == Sqrt(pca.explained_variance_)
    IN  [shape |-> X.shape,
         a |-> Eager([i \in 1..NRows(X) |->
                 Div(Mul(Sub(X.a[i], pca.mean_), pca.components_), scale)])]

\* ---- numpy.percentile, linear interpolation -------------------------------
RECURSIVE Insert(_, _)
Insert(x, s) ==
    IF s = <<>> THEN <<x>>
    ELSE IF Gt(x, Head(s)) THEN <<Head(s)>> \o Insert(x, Tail(s))
    ELSE <<x>> \o s

RECURSIVE SortN(_, _)
SortN(s, i) == IF i = 0 THEN <<>> ELSE Insert(s[i], SortN(s, i - 1))

\* The value at the fractional position lo + t between the sorted entries.
interpolate(s, lo, hi, t) ==
    Add(s[lo + 1], Mul(Sub(s[hi + 1], s[lo + 1]), t))

\* The value at the 0-based fractional position pos of the n sorted entries s.
percentile_sorted(s, n, pos, lo) ==
    interpolate(s, lo, IF lo + 1 > n - 1 THEN n - 1 ELSE lo + 1,
                Sub(pos, R(lo)))

percentile_at(s, n, pos) == percentile_sorted(s, n, pos, pos.n \div pos.d)

\* The (100 * frac)-th percentile of v, frac a rational in [0, 1]: nan when
\* an entry is nan.
percentile(v, frac) ==
    IF \E i \in 1..Len(v) : ~(v[i].t \in {"fin", "inf"}) THEN NaN
    ELSE percentile_at(SortN(v, Len(v)), Len(v), Mul(R(Len(v) - 1), frac))

(***************************************************************************)
(* pyod.models.base.BaseDetector: the parts CD inherits                    *)
(***************************************************************************)
\* BaseDetector.__init__ accepts a contamination in the open interval (0, 0.5).
contamination_valid(c) == Gt(c, Zero) /\ Gt(Rat(1, 2), c)

\* BaseDetector._set_n_classes(y): the number of distinct target values.
set_n_classes(self, y) ==
    [self EXCEPT !.classes_ = Cardinality({y.a[i] : i \in 1..Len(y.a)})]

\* labels_: an observation is labelled 1 when its score exceeds the threshold.
label_scores(self, thr) ==
    [self EXCEPT
       !.threshold_ = thr,
       !.labels_    = Eager([i \in 1..Len(self.decision_scores_) |->
                         IF Gt(self.decision_scores_[i], thr) THEN 1 ELSE 0]),
       !.has        = @ \cup {"threshold_", "labels_"}]

\* BaseDetector._process_decision_scores(): the threshold is the
\* (1 - contamination)-quantile of decision_scores_.
process_decision_scores(self) ==
    label_scores(self, percentile(self.decision_scores_,
                                  Sub(One, self.contamination)))

(***************************************************************************)
(* pyod/models/cd.py                                                       *)
(***************************************************************************)
whiten_data(X, pca) == PCA_transform(pca, X)

NoCooks == [raised |-> "nocall", leverage |-> <<>>, df |-> 0, mse |-> Zero,
            distance_ |-> <<>>]

\* leverage = (X * np.linalg.pinv(X).T).sum(1)
Cooks_leverage(rows, P, n, p) ==
    Eager([i \in 1..n |-> Dot(rows[i], Col(P, p, i))])

\* residuals = y - model.predict(X)
Cooks_residuals(y, yhat, n) == Eager([i \in 1..n |-> Sub(y[i], yhat[i])])

\* mse = np.dot(residuals, residuals) / df
Cooks_mse(residuals, df) == Div(Dot(residuals, residuals), R(df))

\* residuals_studentized = residuals / np.sqrt(mse) / np.sqrt(1 - leverage)
Cooks_residuals_studentized(residuals, mse, leverage, n) ==
    Eager([i \in 1..n |->
             Div(Div(residuals[i], Sqrt(mse)), Sqrt(Sub(One, leverage[i])))])

\* distance_ = residuals_studentized ** 2 / X.shape[1]
\* distance_ *= leverage / (1 - leverage)
Cooks_distance(residuals_studentized, leverage, n, p) ==
    Eager([i \in 1..n |->
             Mul(Div(Mul(residuals_studentized[i], residuals_studentized[i]),
                     R(p)),
                 Div(leverage[i], Sub(One, leverage[i])))])

\* The frame at the return.
Cooks_return(leverage, df, mse, residuals_studentized, n, p) ==
    [raised |-> "none", leverage |-> leverage, df |-> df, mse |-> mse,
     distance_ |-> Cooks_distance(residuals_studentized, leverage, n, p)]

Cooks_scale(leverage, df, residuals, mse, n, p) ==
    Cooks_return(leverage, df, mse,
                 Cooks_residuals_studentized(residuals, mse, leverage, n), n, p)

Cooks_fit_quality(leverage, df, residuals, n, p) ==
    Cooks_scale(leverage, df, residuals, Cooks_mse(residuals, df), n, p)

\* From the prediction on: model.predict raises, or the distances follow.
Cooks_predict(X, y, model, leverage, df) ==
    IF predict_raises(model, X) # "none"
    THEN [NoCooks EXCEPT !.raised = predict_raises(model, X),
                         !.leverage = leverage, !.df = df]
    ELSE Cooks_fit_quality(leverage, df,
                           Cooks_residuals(y.a, predict(model, X), NRows(X)),
                           NRows(X), NCols(X))

\* pinv does not take a matrix with nan or inf, matrix_rank none without
\* columns.
Cooks_rows(X, y, model, rows, n, p) ==
    IF ~AllFinite(rows, n, p) THEN [NoCooks EXCEPT !.raised = "LinAlgError"]
    ELSE IF n = 0 \/ p = 0 THEN [NoCooks EXCEPT !.raised = "ValueError"]
    ELSE Cooks_predict(X, y, model,
                       Cooks_leverage(rows, pinv(rows, n, p), n, p),
                       n - matrix_rank(rows, n, p))

\* Cooks_dist(X, y, model): the frame of the call, its locals and what it
\* returns (distance_) or raises.
Cooks_dist(X, y, model) == Cooks_rows(X, y, model, Rows(X), NRows(X), NCols(X))

\* A name that is bound to no object yet.
NoDetector ==
    [alive |-> FALSE, whitening |-> FALSE, rule_of_thumb |-> FALSE,
     contamination |-> Zero, classes_ |-> 0, model |-> NoModel, pca |-> NoPCA,
     has |-> {}, decision_scores_ |-> <<>>, threshold_ |-> Zero,
     labels_ |-> <<>>]

\* CD.__init__(whitening, contamination, rule_of_thumb).
CD_init(whitening, contamination, rule_of_thumb) ==
    IF ~contamination_valid(contamination)
    THEN [self |-> NoDetector, raised |-> "ValueError"]
    ELSE [self |-> [NoDetector EXCEPT !.alive = TRUE,
                                      !.contamination = contamination,
                                      !.whitening = whitening,
                                      !.rule_of_thumb = rule_of_thumb],
          raised |-> "none"]

\* try: X = check_array(X); except ValueError: X = X.reshape(-1, 1)
validate_X(X) == IF check_array_raises(X, TRUE) THEN reshape_column(X) ELSE X

\* influence_threshold_ = 4 / X.shape[0]
influence_threshold(X) == Div(R(4), R(NRows(X)))

\* sum(distance_ > influence_threshold_) / X.shape[0]
observed_contamination(distance_, X) ==
    Div(R(Cardinality({i \in 1..Len(distance_) :
                         Gt(distance_[i], influence_threshold(X))})),
        R(NRows(X)))

\* The rule of thumb forgotten: the contamination is never recomputed.
fit_contamination_kept(self, distance_, X) == self.contamination

\* The rule of thumb applied whatever the mode.
fit_contamination_always(self, distance_, X) ==
    observed_contamination(distance_, X)

\* The contamination fit leaves on the detector: recomputed under the rule of
\* thumb, untouched otherwise.
fit_contamination(self, distance_, X) ==
    IF self.rule_of_thumb THEN observed_contamination(distance_, X)
    ELSE self.contamination

\* The threshold taken before the contamination is recomputed.
fit_store_stale(self, distance_, X) ==
    [process_decision_scores(
         [self EXCEPT !.decision_scores_ = distance_,
                      !.has = @ \cup {"decision_scores_"}])
       EXCEPT !.contamination = fit_contamination(self, distance_, X)]

\* The tail of fit once Cook's distance is there: contamination, scores,
\* threshold and labels.
fit_store(self, distance_, X) ==
    process_decision_scores(
        [self EXCEPT !.contamination = fit_contamination(self, distance_, X),
                     !.decision_scores_ = distance_,
                     !.has = @ \cup {"decision_scores_"}])

fit_return(self, X, cd) ==
    [self |-> fit_store(self, cd.distance_, X), raised |-> "none", cooks |-> cd]

\* distance_ = Cooks_dist(X, y, self.model)
fit_distance(self, X, y) == fit_return(self, X, Cooks_dist(X, y, self.model))

\* self.model.fit(X, y)
fit_model(self, X, y) ==
    IF LinearRegression_fit_raises(X, y) # "none"
    THEN [self |-> self, raised |-> LinearRegression_fit_raises(X, y),
          cooks |-> NoCooks]
    ELSE fit_distance([self EXCEPT !.model = LinearRegression_fit(X, y)], X, y)

\* if self.whitening: self.pca = PCA(whiten=True); self.pca.fit(X);
\* X = whiten_data(X, self.pca)
fit_whiten(self, X, y) ==
    IF ~self.whitening THEN fit_model(self, X, y)
    ELSE IF PCA_fit_raises(X) # "none"
    THEN [self |-> [self EXCEPT !.pca = PCA], raised |-> PCA_fit_raises(X),
          cooks |-> NoCooks]
    ELSE fit_model([self EXCEPT !.pca = PCA_fit(X)],
                   whiten_data(X, PCA_fit(X)), y)

\* y = np.squeeze(check_array(y, ensure_2d=False)); self._set_n_classes(y)
fit_targets(self, X, y) ==
    IF check_array_raises(y, FALSE)
    THEN [self |-> self, raised |-> "ValueError", cooks |-> NoCooks]
    ELSE fit_whiten(set_n_classes(self, squeeze(y)), X, squeeze(y))

\* CD.fit(X, y): the detector it leaves, what it raises, and the frame of its
\* Cooks_dist call.
fit(self, X, y) ==
    fit_targets([self EXCEPT !.model = LinearRegression], validate_X(X), y)

\* check_is_fitted left out: every detector passes.
check_is_fitted_skipped(self, attributes) == TRUE

\* sklearn's check_is_fitted(self, attributes): every attribute is there.
check_is_fitted(self, attributes) == attributes \subseteq self.has

\* y = X[:, 0]: the first column taken for the targets.
first_column(X) == [shape |-> <<NRows(X)>>, a |-> Col(Rows(X), NRows(X), 1)]

\* y = X[:, -1]
last_column(X) ==
    [shape |-> <<NRows(X)>>, a |-> Col(Rows(X), NRows(X), NCols(X))]

\* X = X[:, :-1]
leading_columns(X) ==
    Array2(Eager([i \in 1..NRows(X) |->
                    SubSeq(A_row(X, i), 1, NCols(X) - 1)]),
           NRows(X), NCols(X) - 1)

\* What whitening the observations raises ("none": nothing).
decision_whiten_raises(self, X) ==
    IF ~self.whitening THEN "none"
    ELSE IF self.pca.st = "absent" THEN "AttributeError"
    ELSE PCA_transform_raises(self.pca, X)

\* The scores of the call kept on the detector.
decision_return_stored(self, cd) ==
    [self |-> IF cd.raised = "none"
              THEN [self EXCEPT !.decision_scores_ = cd.distance_] ELSE self,
     raised |-> cd.raised, ret |-> cd.distance_, cooks |-> cd]

\* return distance_
decision_return(self, cd) ==
    [self |-> self, raised |-> cd.raised, ret |-> cd.distance_, cooks |-> cd]

\* From the split of X into observations and targets on.
decision_scores(self, X, y) ==
    IF decision_whiten_raises(self, X) # "none"
    THEN [self |-> self, raised |-> decision_whiten_raises(self, X),
          ret |-> <<>>, cooks |-> NoCooks]
    ELSE IF self.model.st = "absent"
    THEN [self |-> self, raised |-> "AttributeError", ret |-> <<>>,
          cooks |-> NoCooks]
    ELSE decision_return(self,
             Cooks_dist(IF self.whitening THEN whiten_data(X, self.pca) ELSE X,
                        y, self.model))

decision_split(self, X) ==
    decision_scores(self, leading_columns(X), last_column(X))

\* CD.decision_function(X): the detector it leaves, what it raises or returns,
\* and the frame of its Cooks_dist call.
decision_function(self, X) ==
    IF ~check_is_fitted(self, {"decision_scores_", "threshold_", "labels_"})
    THEN [self |-> self, raised |-> "NotFittedError", ret |-> <<>>,
          cooks |-> NoCooks]
    ELSE decision_split(self, validate_X(X))

(***************************************************************************)
(* Inputs                                                                  *)
(***************************************************************************)
\* Single-feature training values are the base patterns moved by 0..MaxShift.
MaxShift == 0

\* New observations (x, 1) with x in 0..MaxProbe are scored.
MaxProbe == 0

IVec(xs) == Vec(Eager([i \in 1..Len(xs) |-> R(xs[i])]))

IMat(rows) ==
    Mat(Eager([i \in 1..Len(rows) |->
                 Eager([j \in 1..Len(rows[i]) |-> R(rows[i][j])])]))

IColumn(xs) == IMat(Eager([i \in 1..Len(xs) |-> <<xs[i]>>]))

Shifted(xs, k) == Eager([i \in 1..Len(xs) |-> xs[i] + k])

BaseX == {<<0, 1, 2>>, <<1, 1, 0>>}

BaseY == {<<1, 0, 0>>, <<0, 1, 2>>}

\* Five features spanning the complement of (1, 1, 1, -1, -1, -1).
WideX ==
    <<<< 1,  0,  0,  0, 1>>,
      <<-1,  1,  0,  0, 0>>,
      << 0, -1,  0,  0, 0>>,
      << 0,  0,  1,  0, 1>>,
      << 0,  0, -1,  1, 0>>,
      << 0,  0,  0, -1, 0>>>>

SingleFeatureSets ==
    {[X |-> IColumn(Shifted(x, k)), y |-> IVec(y)] :
        x \in BaseX, k \in 0..MaxShift, y \in BaseY}

OtherShapes ==
    { [X |-> IVec(<<0, 1, 3>>),                    y |-> IColumn(<<1, 0, 0>>)],
      [X |-> IMat(<<<<1, 0>>, <<0, 0>>, <<0, 1>>, <<0, 2>>>>),
                                                   y |-> IVec(<<0, 0, 1, 0>>)],
      [X |-> IMat(WideX),                          y |-> IVec(<<1, 0, 0, 0, 0, 0>>)] }

\* Inputs fit cannot take: a row-count mismatch between X and y, and an X
\* without samples.
BadShapes ==
    { [X |-> IColumn(<<0, 1, 2>>), y |-> IVec(<<0, 1>>)],
      [X |-> [shape |-> <<0, 1>>, a |-> <<>>], y |-> IVec(<<0, 0, 1>>)] }

FitInputs == SingleFeatureSets \cup OtherShapes \cup BadShapes

\* The training data as decision_function takes it: the columns of X, then y.
Reassemble(X, y) ==
    Array2(Eager([i \in 1..NRows(validate_X(X)) |->
                    Append(A_row(validate_X(X), i), y.a[i])]),
           NRows(validate_X(X)), NCols(validate_X(X)) + 1)

Probes ==
    {IMat(<<<<0, 0>>, <<1, 0>>, <<x, 1>>>>) : x \in 0..MaxProbe}
    \cup {IVec(<<0, 1, 2>>)}

Contaminations == {Zero, Rat(1, 10), Rat(1, 2), Rat(3, 5)}

(***************************************************************************)
(* The detector as a state machine                                         *)
(***************************************************************************)
VARIABLES
    self,    \* the detector object
    call,    \* the last call: its operation, arguments and outcome
    cooks,   \* the frame of the Cooks_dist call the last call made
    ghost    \* history: the configuration and the last successful fit

vars == <<self, call, cooks, ghost>>

NoCall == [op |-> "none", raised |-> "none", X |-> EmptyVec, y |-> EmptyVec,
           c |-> Zero, ret |-> <<>>]

Init ==
    /\ self = NoDetector
    /\ call = NoCall
    /\ cooks = NoCooks
    /\ ghost = [configured |-> Zero, everFit |-> FALSE, lastFit |-> "none",
                trainX |-> EmptyVec, trainY |-> EmptyVec, entryValid |-> TRUE,
                refit |-> FALSE]

Construct(w, c, r) ==
    /\ ~self.alive
    /\ LET res == CD_init(w, c, r)
       IN  /\ self' = res.self
           /\ call' = [NoCall EXCEPT !.op = "init", !.raised = res.raised,
                                     !.c = c]
           /\ ghost' = [ghost EXCEPT !.configured = res.self.contamination]
    /\ cooks' = NoCooks

\* Whitening is modelled for single-feature data that is not constant (what
\* PCA does with a zero variance differs between scikit-learn releases).
Whitenable(X) ==
    IF NDim(X) = 2 /\ X.shape[2] > 1 THEN FALSE
    ELSE IF Len(X.a) < 2 THEN TRUE
    ELSE \E i \in 1..Len(X.a) : X.a[i] # X.a[1]

Fit(d) ==
    /\ self.alive
    /\ self.whitening => Whitenable(d.X)
    /\ LET res == fit(self, d.X, d.y)
       IN  /\ self' = res.self
           /\ call' = [NoCall EXCEPT !.op = "fit", !.raised = res.raised,
                                     !.X = d.X, !.y = d.y]
           /\ cooks' = res.cooks
           /\ ghost' = IF res.raised = "none"
                       THEN [ghost EXCEPT
                               !.everFit = TRUE, !.lastFit = "ok",
                               !.trainX = d.X, !.trainY = d.y,
                               !.entryValid = contamination_valid(self.contamination),
                               !.refit = /\ call.op = "fit"
                                         /\ call.raised = "none"
                                         /\ call.X = d.X
                                         /\ call.y = d.y]
                       ELSE [ghost EXCEPT !.lastFit = "failed",
                                          !.refit = FALSE]

Score(M) ==
    /\ self.alive
    /\ LET res == decision_function(self, M)
       IN  /\ self' = res.self
           /\ call' = [NoCall EXCEPT !.op = "score", !.raised = res.raised,
                                     !.X = M, !.ret = res.ret]
           /\ cooks' = res.cooks
    /\ ghost' = [ghost EXCEPT !.refit = FALSE]

ScoreInputs ==
    Probes \cup (IF ghost.everFit
                 THEN {Reassemble(ghost.trainX, ghost.trainY)} ELSE {})

Next ==
    \/ \E w \in BOOLEAN, r \in BOOLEAN, c \in Contaminations : Construct(w, c, r)
    \/ \E d \in FitInputs : Fit(d)
    \/ \E M \in ScoreInputs : Score(M)

Spec == Init /\ [][Next]_vars

(***************************************************************************)
(* Properties                                                              *)
(***************************************************************************)
FittedAttributes == {"decision_scores_", "threshold_", "labels_"}

\* Two score vectors hold the same values, an undefined entry matching an
\* undefined entry.
SameValue(a, b) == IF IsNaN(a) \/ IsNaN(b) THEN IsNaN(a) /\ IsNaN(b) ELSE a = b

SameValues(u, v) ==
    /\ Len(u) = Len(v)
    /\ \A i \in 1..Len(u) : SameValue(u[i], v[i])

\* The last fit call succeeded and nothing has failed since.
FitSucceeded == call.op = "fit" /\ call.raised = "none"

\* The rule-of-thumb cutoff 4/n of the training scores on the detector.
FourOverN == Rat(4, Len(self.decision_scores_))

Exceeders == {i \in 1..Len(self.decision_scores_) :
                Gt(self.decision_scores_[i], FourOverN)}

\* Every training score on the detector is a number.
ScoresAreNumbers ==
    \A i \in 1..Len(self.decision_scores_) : IsFin(self.decision_scores_[i])

\* What a fit derives: whitening state, model, scores, threshold, labels.
Derived(s) == <<s.pca, s.model, s.decision_scores_, s.threshold_, s.labels_>>

\* C1: a score call made while no fit has succeeded raises NotFittedError and
\* returns no scores; the fitted attributes are there exactly once a fit has
\* succeeded, and only then does a score call return scores.
C1_ScoreNeedsSuccessfulFit ==
    /\ (FittedAttributes \subseteq self.has) <=> ghost.everFit
    /\ call.op = "score" =>
         /\ ~ghost.everFit => call.raised = "NotFittedError"
         /\ call.raised # "none" => call.ret = <<>>
         /\ call.raised = "none" => ghost.everFit /\ call.ret # <<>>

\* A score call on a detector whose only fit so far has failed.
C1_ScoredBeforeAnyFitSucceeded ==
    /\ call.op = "score"
    /\ ~ghost.everFit
    /\ ghost.lastFit = "failed"
    /\ call.raised = "NotFittedError"

\* C2: under the rule of thumb, after a successful fit on n observations
\* threshold_ is exactly 4/n (stated for the fits whose scores are all
\* numbers, so that no undefined score is what breaks it).
C2_ThresholdIsFourOverN ==
    (ghost.everFit /\ self.rule_of_thumb /\ ScoresAreNumbers)
    => self.threshold_ = FourOverN

\* C3: once a fit has succeeded, under the rule of thumb the contamination is
\* the number of training scores strictly above 4/n, divided by n, whatever
\* was configured; otherwise it is the configured contamination.
C3_ContaminationAfterFit ==
    ghost.everFit =>
        self.contamination =
            IF self.rule_of_thumb
            THEN Rat(Cardinality(Exceeders), Len(self.decision_scores_))
            ELSE ghost.configured

\* A rule-of-thumb fit has replaced the configured contamination by a
\* fraction of exceeding scores that is not zero.
C3_ContaminationReplaced ==
    /\ FitSucceeded
    /\ self.rule_of_thumb
    /\ self.contamination # ghost.configured
    /\ Exceeders # {}

\* C4: after a successful fit on (X, y), decision_function on the columns of
\* X followed by y returns the values of decision_scores_, with whitening
\* and without.
C4_TrainingScoresReproduced ==
    (/\ call.op = "score"
     /\ ghost.lastFit = "ok"
     /\ call.X = Reassemble(ghost.trainX, ghost.trainY))
    => /\ call.raised = "none"
       /\ SameValues(call.ret, self.decision_scores_)

\* The whitened training data scored again, some score above zero.
C4_TrainingDataScored ==
    /\ call.op = "score"
    /\ ghost.lastFit = "ok"
    /\ call.X = Reassemble(ghost.trainX, ghost.trainY)
    /\ self.whitening
    /\ call.raised = "none"
    /\ \E i \in 1..Len(call.ret) : Gt(call.ret[i], Zero)

\* C5: a fit that follows a successful fit on the same X and y leaves the
\* same decision_scores_ and the same threshold_, in both modes.
C5_RefitReproduces ==
    [][ghost'.refit =>
         /\ SameValues(self'.decision_scores_, self.decision_scores_)
         /\ SameValue(self'.threshold_, self.threshold_)]_vars

\* A second fit on the same data under the rule of thumb, the first one
\* having replaced the contamination.
C5_RefittedSameData ==
    /\ ghost.refit
    /\ self.rule_of_thumb
    /\ self.contamination # ghost.configured

\* C6: in every Cooks_dist call with df > 0, an observation of leverage below
\* 1 gets a distance that is a number >= 0, a perfect fit included.
C6_DistanceDefinedNonNegative ==
    (cooks.raised = "none" /\ cooks.df > 0) =>
        \A i \in 1..Len(cooks.distance_) :
            Gt(One, cooks.leverage[i]) =>
                /\ IsFin(cooks.distance_[i])
                /\ Ge(cooks.distance_[i], Zero)

\* C7 as claimed: no fit completes on a detector whose contamination is
\* outside (0, 0.5).
C7_NoFitOutsideRange == FitSucceeded => ghost.entryValid

\* C7 as amended: construction succeeds exactly for a contamination inside
\* (0, 0.5) and leaves no detector otherwise; fit checks no contamination;
\* without the rule of thumb every fit runs on, and leaves, the configured
\* contamination.
C7_ConfiguredContaminationValid ==
    /\ call.op = "init" =>
         /\ (call.raised = "none") <=> (Gt(call.c, Zero) /\ Gt(Rat(1, 2), call.c))
         /\ self.alive <=> call.raised = "none"
    /\ self.alive => Gt(ghost.configured, Zero) /\ Gt(Rat(1, 2), ghost.configured)
    /\ (self.alive /\ ~self.rule_of_thumb) =>
         /\ self.contamination = ghost.configured
         /\ FitSucceeded => ghost.entryValid

\* A fit completed without the rule of thumb, after an earlier fit.
C7_FitWithConfiguredContamination ==
    /\ FitSucceeded
    /\ ~self.rule_of_thumb
    /\ ghost.refit
    /\ ghost.entryValid

\* C8: a fit call that fails after a successful fit leaves the whitening
\* state, the model, the scores, the threshold and the labels as they were.
C8_FailedFitKeepsDerivedState ==
    [][(/\ call'.op = "fit"
        /\ call'.raised # "none"
        /\ ghost.lastFit = "ok"
        /\ ghost'.lastFit = "failed")
       => Derived(self') = Derived(self)]_vars

\* C9: a score call, whatever it is given and whether it returns or raises,
\* leaves the detector as it was.
C9_ScoreIsReadOnly == [][call'.op = "score" => self' = self]_vars

\* New observations scored by a fitted detector.
C9_NewObservationsScored ==
    /\ call.op = "score"
    /\ call.raised = "none"
    /\ ghost.everFit
    /\ call.X # Reassemble(ghost.trainX, ghost.trainY)

\* C10: under the rule of thumb, after a successful fit labels_[i] = 1
\* exactly for the observations whose score is strictly above 4/n, also when
\* every score is above it (stated for the fits whose scores are all numbers).
C10_LabelsMarkExceeders ==
    (ghost.everFit /\ self.rule_of_thumb /\ ScoresAreNumbers) =>
        \A i \in 1..Len(self.labels_) : (self.labels_[i] = 1) <=> (i \in Exceeders)

============================================================================
